---- MODULE Spec2Model ----
(***************************************************************************)
(* A model of winput's Input accumulator (src/src/lib.rs) and of the       *)
(* earlier revision of the same file that masks only the mouse             *)
(* (src/lib.rs).  The key and button tables are two-generation arrays;     *)
(* register_* shifts one slot, prepare_for_next_frame copies the whole     *)
(* current generation into the previous one.                               *)
(*                                                                         *)
(* f32 values (cursor coordinates, wheel) are modelled by the integers     *)
(* among them; f32_add and f32_sub round their result as f32 does.         *)
(***************************************************************************)
EXTENDS Integers, Sequences, FiniteSets, TLC

(***************************************************************************)
(* Bounds of the model.                                                    *)
(***************************************************************************)
\* most register_key / register_mouse_input calls recorded per slot and frame
MaxEvents == 3
\* largest value the wheel accumulator is driven to
MaxWheel == 1
\* most frames whose end-of-frame reads are recorded
MaxFrames == 3

(***************************************************************************)
(* Program constants.                                                      *)
(***************************************************************************)
NUM_KEYS == 163
NUM_MOUSE_BUTTONS == 256 + 3

(***************************************************************************)
(* winit value types.                                                      *)
(***************************************************************************)
Pressed == "Pressed"
Released == "Released"
ElementState == {Pressed, Released}

\* ModifiersState is a bit set; a value is the set of flags it holds.
ModEmpty == {}
SHIFT == {"shift"}
CTRL == {"ctrl"}
Modifiers == {ModEmpty, SHIFT}

\* VirtualKeyCode variants; `keycode as usize` is the variant's own slot.
KeyCodes == {"A", "F"}

\* Option<VirtualKeyCode>: None is the empty sequence, Some(k) is <<k>>.
None == <<>>
Some(k) == <<k>>

\* MouseButton: Left, Right, Middle, Other(u8)
Left == [kind |-> "Left", value |-> 0]
Right == [kind |-> "Right", value |-> 0]
Middle == [kind |-> "Middle", value |-> 0]
Other(n) == [kind |-> "Other", value |-> n]
Buttons == {Left, Other(255)}

\* mouse_button_to_index adding in u8, the width of the value of Other
mouse_button_to_index_in_u8(button) ==
    CASE button.kind = "Left" -> 0
      [] button.kind = "Right" -> 1
      [] button.kind = "Middle" -> 2
      [] button.kind = "Other" -> (3 + button.value) % 256

mouse_button_to_index(button) ==
    CASE button.kind = "Left" -> 0
      [] button.kind = "Right" -> 1
      [] button.kind = "Middle" -> 2
      [] button.kind = "Other" -> 3 + button.value

ButtonIndices == {mouse_button_to_index(b) : b \in Buttons}

\* every MouseButton there is, and the ones at the ends of the index range
AllButtons == {Left, Right, Middle} \cup {Other(n) : n \in 0..255}
BoundaryButtons == {Left, Right, Middle, Other(0), Other(255)}

\* KeyInput / MouseInput: a state and the modifiers captured with it
ButtonInput(s, m) == [state |-> s, modifiers |-> m]
DefaultInput == ButtonInput(Released, ModEmpty)

\* f32 arithmetic on integer values: a result keeps 24 significant bits,
\* rounded to the nearest such value, a tie going to the even one
Abs(x) == IF x < 0 THEN -x ELSE x

RECURSIVE f32_ulp(_)
f32_ulp(x) == IF Abs(x) < 2^24 THEN 1 ELSE 2 * f32_ulp(Abs(x) \div 2)

f32_round(x) ==
    LET u == f32_ulp(x)
        q == Abs(x) \div u
        r == Abs(x) % u
        n == IF 2 * r < u \/ (2 * r = u /\ q % 2 = 0) THEN q ELSE q + 1
    IN  IF x < 0 THEN -(n * u) ELSE n * u

f32_add(x, y) == f32_round(x + y)
f32_sub(x, y) == f32_round(x - y)

\* cursor coordinates a CursorMoved event may carry
Positions == {<<3, 6>>, <<1, 1>>}

VARIABLES
    keys_now, keys_before,
    mouse_buttons_now, mouse_buttons_before,
    mouse_now, mouse_before,
    mouse_wheel,
    hide_mouse, hide_keys,
    current_modifiers,
    mask_mouse,
    \* history variables: what the caller did in the current frame
    keys_touched, buttons_touched,
    hidden, under_mask, unmasked,
    frame_keys, key_events,
    \* history variables: the calls themselves (Traced* steps only)
    call, context, contexts,
    frame_mouse, mouse_events, wheel_events,
    \* history variable: what the caller read at the end of each frame
    frame_reads

input == <<keys_now, keys_before, mouse_buttons_now, mouse_buttons_before,
           mouse_now, mouse_before, mouse_wheel, hide_mouse, hide_keys,
           current_modifiers, mask_mouse>>
history == <<keys_touched, buttons_touched, hidden, under_mask, unmasked,
             frame_keys, key_events>>
trace == <<call, context, contexts, frame_mouse, mouse_events, wheel_events,
           frame_reads>>
vars == <<input, history, trace>>

(***************************************************************************)
(* Input::default()                                                        *)
(***************************************************************************)
KeysDefault == [k \in KeyCodes |-> DefaultInput]
MouseButtonsDefault == [i \in ButtonIndices |-> DefaultInput]

InputDefault ==
    /\ keys_now = KeysDefault
    /\ keys_before = KeysDefault
    /\ mouse_buttons_now = MouseButtonsDefault
    /\ mouse_buttons_before = MouseButtonsDefault
    /\ mouse_now = <<0, 0>>
    /\ mouse_before = <<0, 0>>
    /\ mouse_wheel = 0
    /\ hide_mouse = FALSE
    /\ hide_keys = FALSE
    /\ current_modifiers = ModEmpty
    /\ mask_mouse = FALSE

NoEvents == [k \in KeyCodes |-> <<>>]

\* a name for each entry of the key table and of the button table
KeySlot(k) == <<"key", k>>
ButtonSlot(b) == <<"button", mouse_button_to_index(b)>>
Slots == {KeySlot(k) : k \in KeyCodes} \cup {ButtonSlot(b) : b \in Buttons}
NoContexts == [slot \in Slots |-> <<>>]

\* nothing has been called yet
NoCalls ==
    /\ keys_touched = {}
    /\ buttons_touched = {}
    /\ hidden = {}
    /\ under_mask = {}
    /\ unmasked = {}
    /\ frame_keys = KeysDefault
    /\ key_events = NoEvents
    /\ call = <<"default">>
    /\ context = ModEmpty
    /\ contexts = NoContexts
    /\ frame_mouse = <<0, 0>>
    /\ mouse_events = <<>>
    /\ wheel_events = <<>>
    /\ frame_reads = <<>>

Init == InputDefault /\ NoCalls

(***************************************************************************)
(* Operations of Input (src/src/lib.rs).                                   *)
(***************************************************************************)
\* prepare_for_next_frame with the key-table copy left out
prepare_without_key_copy ==
    /\ mouse_wheel' = 0
    /\ mouse_before' = <<mouse_now[1], mouse_now[2]>>
    /\ mouse_buttons_before' = mouse_buttons_now
    /\ hide_mouse' = FALSE
    /\ hide_keys' = FALSE
    /\ UNCHANGED <<keys_now, keys_before, mouse_buttons_now, mouse_now,
                   current_modifiers, mask_mouse>>

\* prepare_for_next_frame with the button-table copy left out
prepare_without_button_copy ==
    /\ mouse_wheel' = 0
    /\ mouse_before' = <<mouse_now[1], mouse_now[2]>>
    /\ keys_before' = keys_now
    /\ hide_mouse' = FALSE
    /\ hide_keys' = FALSE
    /\ UNCHANGED <<keys_now, mouse_buttons_now, mouse_buttons_before,
                   mouse_now, current_modifiers, mask_mouse>>

\* prepare_for_next_frame clearing only the key flag
prepare_keeps_hide_mouse ==
    /\ mouse_wheel' = 0
    /\ mouse_before' = <<mouse_now[1], mouse_now[2]>>
    /\ keys_before' = keys_now
    /\ mouse_buttons_before' = mouse_buttons_now
    /\ hide_keys' = FALSE
    /\ UNCHANGED <<keys_now, mouse_buttons_now, mouse_now, current_modifiers,
                   hide_mouse, mask_mouse>>

\* prepare_for_next_frame with the copy of the mouse position left out
prepare_without_mouse_copy ==
    /\ mouse_wheel' = 0
    /\ keys_before' = keys_now
    /\ mouse_buttons_before' = mouse_buttons_now
    /\ hide_mouse' = FALSE
    /\ hide_keys' = FALSE
    /\ UNCHANGED <<keys_now, mouse_buttons_now, mouse_now, mouse_before,
                   current_modifiers, mask_mouse>>

\* prepare_for_next_frame exchanging the two key tables instead of copying
prepare_swapping_keys ==
    /\ mouse_wheel' = 0
    /\ mouse_before' = <<mouse_now[1], mouse_now[2]>>
    /\ keys_before' = keys_now
    /\ keys_now' = keys_before
    /\ mouse_buttons_before' = mouse_buttons_now
    /\ hide_mouse' = FALSE
    /\ hide_keys' = FALSE
    /\ UNCHANGED <<mouse_buttons_now, mouse_now, current_modifiers,
                   mask_mouse>>

prepare_for_next_frame ==
    /\ mouse_wheel' = 0
    /\ mouse_before' = <<mouse_now[1], mouse_now[2]>>
    /\ keys_before' = keys_now
    /\ mouse_buttons_before' = mouse_buttons_now
    /\ hide_mouse' = FALSE
    /\ hide_keys' = FALSE
    /\ UNCHANGED <<keys_now, mouse_buttons_now, mouse_now, current_modifiers,
                   mask_mouse>>

\* hide_key_state setting both flags
hide_key_state_hides_mouse ==
    /\ hide_keys' = TRUE
    /\ hide_mouse' = TRUE
    /\ UNCHANGED <<keys_now, keys_before, mouse_buttons_now,
                   mouse_buttons_before, mouse_now, mouse_before, mouse_wheel,
                   current_modifiers, mask_mouse>>

hide_key_state ==
    /\ hide_keys' = TRUE
    /\ UNCHANGED <<keys_now, keys_before, mouse_buttons_now,
                   mouse_buttons_before, mouse_now, mouse_before, mouse_wheel,
                   hide_mouse, current_modifiers, mask_mouse>>

hide_mouse_state ==
    /\ hide_mouse' = TRUE
    /\ UNCHANGED <<keys_now, keys_before, mouse_buttons_now,
                   mouse_buttons_before, mouse_now, mouse_before, mouse_wheel,
                   hide_keys, current_modifiers, mask_mouse>>

\* set_modifiers adding the flags to the context instead of replacing it
set_modifiers_adding(modifiers) ==
    /\ current_modifiers' = current_modifiers \cup modifiers
    /\ UNCHANGED <<keys_now, keys_before, mouse_buttons_now,
                   mouse_buttons_before, mouse_now, mouse_before, mouse_wheel,
                   hide_mouse, hide_keys, mask_mouse>>

set_modifiers(modifiers) ==
    /\ current_modifiers' = modifiers
    /\ UNCHANGED <<keys_now, keys_before, mouse_buttons_now,
                   mouse_buttons_before, mouse_now, mouse_before, mouse_wheel,
                   hide_mouse, hide_keys, mask_mouse>>

\* a KeyboardInput event
KeyboardInput(s, vk, m) == [state |-> s, virtual_keycode |-> vk, modifiers |-> m]

\* register_key that overwrites the current entry without saving it
register_key_no_shift(ev) ==
    /\ IF ev.virtual_keycode # None
       THEN LET keycode == ev.virtual_keycode[1] IN
            /\ keys_now' = [keys_now EXCEPT
                   ![keycode] = ButtonInput(ev.state, current_modifiers)]
            /\ UNCHANGED keys_before
       ELSE UNCHANGED <<keys_now, keys_before>>
    /\ UNCHANGED <<mouse_buttons_now, mouse_buttons_before, mouse_now,
                   mouse_before, mouse_wheel, hide_mouse, hide_keys,
                   current_modifiers, mask_mouse>>

\* register_key with its two assignments in the other order
register_key_shift_after(ev) ==
    /\ IF ev.virtual_keycode # None
       THEN LET keycode == ev.virtual_keycode[1]
                entry == ButtonInput(ev.state, current_modifiers) IN
            /\ keys_now' = [keys_now EXCEPT ![keycode] = entry]
            /\ keys_before' = [keys_before EXCEPT ![keycode] = entry]
       ELSE UNCHANGED <<keys_now, keys_before>>
    /\ UNCHANGED <<mouse_buttons_now, mouse_buttons_before, mouse_now,
                   mouse_before, mouse_wheel, hide_mouse, hide_keys,
                   current_modifiers, mask_mouse>>

\* register_key adding the context to the modifiers the entry already held
register_key_merging_modifiers(ev) ==
    /\ IF ev.virtual_keycode # None
       THEN LET keycode == ev.virtual_keycode[1] IN
            /\ keys_before' = [keys_before EXCEPT ![keycode] = keys_now[keycode]]
            /\ keys_now' = [keys_now EXCEPT
                   ![keycode] = ButtonInput(ev.state,
                       keys_now[keycode].modifiers \cup current_modifiers)]
       ELSE UNCHANGED <<keys_now, keys_before>>
    /\ UNCHANGED <<mouse_buttons_now, mouse_buttons_before, mouse_now,
                   mouse_before, mouse_wheel, hide_mouse, hide_keys,
                   current_modifiers, mask_mouse>>

\* register_key storing the modifiers the event carries
register_key_event_modifiers(ev) ==
    /\ IF ev.virtual_keycode # None
       THEN LET keycode == ev.virtual_keycode[1] IN
            /\ keys_before' = [keys_before EXCEPT ![keycode] = keys_now[keycode]]
            /\ keys_now' = [keys_now EXCEPT
                   ![keycode] = ButtonInput(ev.state, ev.modifiers)]
       ELSE UNCHANGED <<keys_now, keys_before>>
    /\ UNCHANGED <<mouse_buttons_now, mouse_buttons_before, mouse_now,
                   mouse_before, mouse_wheel, hide_mouse, hide_keys,
                   current_modifiers, mask_mouse>>

\* register_key filing an event without key code under key A
register_key_none_as_key(ev) ==
    LET keycode == IF ev.virtual_keycode # None
                   THEN ev.virtual_keycode[1] ELSE "A" IN
    /\ keys_before' = [keys_before EXCEPT ![keycode] = keys_now[keycode]]
    /\ keys_now' = [keys_now EXCEPT
           ![keycode] = ButtonInput(ev.state, current_modifiers)]
    /\ UNCHANGED <<mouse_buttons_now, mouse_buttons_before, mouse_now,
                   mouse_before, mouse_wheel, hide_mouse, hide_keys,
                   current_modifiers, mask_mouse>>

\* register_key releasing every other key on a press
register_key_releasing_others(ev) ==
    /\ IF ev.virtual_keycode # None
       THEN LET keycode == ev.virtual_keycode[1] IN
            /\ keys_before' = [keys_before EXCEPT ![keycode] = keys_now[keycode]]
            /\ keys_now' = [k \in DOMAIN keys_now |->
                   IF k = keycode
                   THEN ButtonInput(ev.state, current_modifiers)
                   ELSE IF ev.state = Pressed
                        THEN ButtonInput(Released, keys_now[k].modifiers)
                        ELSE keys_now[k]]
       ELSE UNCHANGED <<keys_now, keys_before>>
    /\ UNCHANGED <<mouse_buttons_now, mouse_buttons_before, mouse_now,
                   mouse_before, mouse_wheel, hide_mouse, hide_keys,
                   current_modifiers, mask_mouse>>

\* register_key dropping an event that repeats the state the key has
register_key_ignoring_repeats(ev) ==
    /\ IF /\ ev.virtual_keycode # None
          /\ keys_now[ev.virtual_keycode[1]].state # ev.state
       THEN LET keycode == ev.virtual_keycode[1] IN
            /\ keys_before' = [keys_before EXCEPT ![keycode] = keys_now[keycode]]
            /\ keys_now' = [keys_now EXCEPT
                   ![keycode] = ButtonInput(ev.state, current_modifiers)]
       ELSE UNCHANGED <<keys_now, keys_before>>
    /\ UNCHANGED <<mouse_buttons_now, mouse_buttons_before, mouse_now,
                   mouse_before, mouse_wheel, hide_mouse, hide_keys,
                   current_modifiers, mask_mouse>>

register_key(ev) ==
    /\ IF ev.virtual_keycode # None
       THEN LET keycode == ev.virtual_keycode[1] IN
            /\ keys_before' = [keys_before EXCEPT ![keycode] = keys_now[keycode]]
            /\ keys_now' = [keys_now EXCEPT
                   ![keycode] = ButtonInput(ev.state, current_modifiers)]
       ELSE UNCHANGED <<keys_now, keys_before>>
    /\ UNCHANGED <<mouse_buttons_now, mouse_buttons_before, mouse_now,
                   mouse_before, mouse_wheel, hide_mouse, hide_keys,
                   current_modifiers, mask_mouse>>

register_mouse_input(state, button) ==
    LET index == mouse_button_to_index(button) IN
    /\ mouse_buttons_before' =
           [mouse_buttons_before EXCEPT ![index] = mouse_buttons_now[index]]
    /\ mouse_buttons_now' =
           [mouse_buttons_now EXCEPT
               ![index] = ButtonInput(state, current_modifiers)]
    /\ UNCHANGED <<keys_now, keys_before, mouse_now, mouse_before, mouse_wheel,
                   hide_mouse, hide_keys, current_modifiers, mask_mouse>>

\* register_mouse_position adding the coordinates to the position
register_mouse_position_accumulating(x, y) ==
    /\ mouse_now' = <<f32_add(mouse_now[1], x), f32_add(mouse_now[2], y)>>
    /\ UNCHANGED <<keys_now, keys_before, mouse_buttons_now,
                   mouse_buttons_before, mouse_before, mouse_wheel, hide_mouse,
                   hide_keys, current_modifiers, mask_mouse>>

register_mouse_position(x, y) ==
    /\ mouse_now' = <<x, y>>
    /\ UNCHANGED <<keys_now, keys_before, mouse_buttons_now,
                   mouse_buttons_before, mouse_before, mouse_wheel, hide_mouse,
                   hide_keys, current_modifiers, mask_mouse>>

\* MouseScrollDelta: LineDelta(x, y) or PixelDelta(position)
LineDelta(x, y) == [kind |-> "LineDelta", x |-> x, y |-> y]
PixelDelta(x, y) == [kind |-> "PixelDelta", x |-> x, y |-> y]
ScrollDeltas == {LineDelta(0, 1), LineDelta(1, 0), PixelDelta(1, 1)}

\* register_mouse_wheel keeping only the last delta, as the position does
register_mouse_wheel_last_wins(delta) ==
    /\ IF delta.kind = "LineDelta"
       THEN mouse_wheel' = delta.y
       ELSE UNCHANGED mouse_wheel
    /\ UNCHANGED <<keys_now, keys_before, mouse_buttons_now,
                   mouse_buttons_before, mouse_now, mouse_before, hide_mouse,
                   hide_keys, current_modifiers, mask_mouse>>

\* register_mouse_wheel adding both components of a line delta
register_mouse_wheel_both_axes(delta) ==
    /\ IF delta.kind = "LineDelta"
       THEN mouse_wheel' = f32_add(mouse_wheel, f32_add(delta.x, delta.y))
       ELSE UNCHANGED mouse_wheel
    /\ UNCHANGED <<keys_now, keys_before, mouse_buttons_now,
                   mouse_buttons_before, mouse_now, mouse_before, hide_mouse,
                   hide_keys, current_modifiers, mask_mouse>>

register_mouse_wheel(delta) ==
    /\ IF delta.kind = "LineDelta"
       THEN mouse_wheel' = f32_add(mouse_wheel, delta.y)
       ELSE UNCHANGED mouse_wheel
    /\ UNCHANGED <<keys_now, keys_before, mouse_buttons_now,
                   mouse_buttons_before, mouse_now, mouse_before, hide_mouse,
                   hide_keys, current_modifiers, mask_mouse>>

\* winit events: Event::WindowEvent { event } and the other variants of
\* Event; the WindowEvent variants Input reads, and one it does not
WindowEvent(event) == [kind |-> "WindowEvent", event |-> event]
Suspended == [kind |-> "Suspended"]
KeyboardInputEvent(ev) == [kind |-> "KeyboardInput", input |-> ev]
CursorMoved(x, y) == [kind |-> "CursorMoved", position |-> <<x, y>>]
MouseWheel(delta) == [kind |-> "MouseWheel", delta |-> delta]
MouseInput(state, button) ==
    [kind |-> "MouseInput", state |-> state, button |-> button]
ModifiersChanged(modifiers) ==
    [kind |-> "ModifiersChanged", modifiers |-> modifiers]
Focused == [kind |-> "Focused"]

\* `as f32` on an f64 that holds an integer
f64_as_f32(x) == f32_round(x)

\* handle_window_event without the ModifiersChanged arm
handle_window_event_without_modifiers(event) ==
    CASE event.kind = "KeyboardInput" -> register_key(event.input)
      [] event.kind = "CursorMoved" ->
             register_mouse_position(f64_as_f32(event.position[1]),
                                     f64_as_f32(event.position[2]))
      [] event.kind = "MouseWheel" -> register_mouse_wheel(event.delta)
      [] event.kind = "MouseInput" ->
             register_mouse_input(event.state, event.button)
      [] OTHER -> UNCHANGED input

handle_window_event(event) ==
    CASE event.kind = "KeyboardInput" -> register_key(event.input)
      [] event.kind = "CursorMoved" ->
             register_mouse_position(f64_as_f32(event.position[1]),
                                     f64_as_f32(event.position[2]))
      [] event.kind = "MouseWheel" -> register_mouse_wheel(event.delta)
      [] event.kind = "MouseInput" ->
             register_mouse_input(event.state, event.button)
      [] event.kind = "ModifiersChanged" ->
             /\ current_modifiers' = event.modifiers
             /\ UNCHANGED <<keys_now, keys_before, mouse_buttons_now,
                            mouse_buttons_before, mouse_now, mouse_before,
                            mouse_wheel, hide_mouse, hide_keys, mask_mouse>>
      [] OTHER -> UNCHANGED input

register_event(ev) ==
    IF ev.kind = "WindowEvent"
    THEN handle_window_event(ev.event)
    ELSE UNCHANGED input

(***************************************************************************)
(* Queries of Input (src/src/lib.rs).                                      *)
(***************************************************************************)
is_key_down(keycode) ==
    ~hide_keys /\ keys_now[keycode].state = Pressed

\* is_key_up reading the table only
is_key_up_unmasked(keycode) ==
    keys_now[keycode].state = Released

is_key_up(keycode) ==
    hide_keys \/ keys_now[keycode].state = Released

is_key_toggled(keycode) ==
    ~hide_keys /\ keys_before[keycode].state # keys_now[keycode].state

is_key_toggled_down(keycode) ==
    is_key_down(keycode) /\ is_key_toggled(keycode)

is_key_toggled_up(keycode) ==
    ~is_key_down(keycode) /\ is_key_toggled(keycode)

\* key_modifiers_state answering the empty set while the keys are hidden
key_modifiers_state_masked(keycode) ==
    IF hide_keys THEN ModEmpty ELSE keys_now[keycode].modifiers

key_modifiers_state(keycode) == keys_now[keycode].modifiers

is_mouse_button_down(button) ==
    LET index == mouse_button_to_index(button) IN
    ~hide_mouse /\ mouse_buttons_now[index].state = Pressed

\* is_mouse_button_up answering false while the mouse is hidden
is_mouse_button_up_hidden_false(button) ==
    LET index == mouse_button_to_index(button) IN
    ~hide_mouse /\ mouse_buttons_now[index].state = Released

is_mouse_button_up(button) ==
    LET index == mouse_button_to_index(button) IN
    hide_mouse \/ mouse_buttons_now[index].state = Released

\* is_mouse_button_toggled reading the tables only
is_mouse_button_toggled_unmasked(button) ==
    LET index == mouse_button_to_index(button) IN
    mouse_buttons_before[index].state # mouse_buttons_now[index].state

is_mouse_button_toggled(button) ==
    LET index == mouse_button_to_index(button) IN
    ~hide_mouse /\ mouse_buttons_before[index].state # mouse_buttons_now[index].state

is_mouse_button_toggled_down(button) ==
    is_mouse_button_toggled(button) /\ is_mouse_button_down(button)

\* is_mouse_button_toggled_up reading the tables only
is_mouse_button_toggled_up_unmasked(button) ==
    LET index == mouse_button_to_index(button) IN
    /\ mouse_buttons_before[index].state # mouse_buttons_now[index].state
    /\ mouse_buttons_now[index].state = Released

is_mouse_button_toggled_up(button) ==
    is_mouse_button_toggled(button) /\ is_mouse_button_up(button)

mouse_button_modifiers_state(button) ==
    mouse_buttons_now[mouse_button_to_index(button)].modifiers

get_mouse_position == <<mouse_now[1], mouse_now[2]>>

get_mouse_moved ==
    <<f32_sub(mouse_now[1], mouse_before[1]),
      f32_sub(mouse_now[2], mouse_before[2])>>

get_mouse_wheel == mouse_wheel

(***************************************************************************)
(* The earlier revision (src/lib.rs): one flag, mask_mouse, and mouse      *)
(* queries that all answer false while it is set.  The other operations    *)
(* are the same text as above.                                             *)
(***************************************************************************)
old_prepare_for_next_frame ==
    /\ mouse_wheel' = 0
    /\ mouse_before' = <<mouse_now[1], mouse_now[2]>>
    /\ keys_before' = keys_now
    /\ mouse_buttons_before' = mouse_buttons_now
    /\ mask_mouse' = FALSE
    /\ UNCHANGED <<keys_now, mouse_buttons_now, mouse_now, current_modifiers,
                   hide_mouse, hide_keys>>

Input_mask_mouse ==
    /\ mask_mouse' = TRUE
    /\ UNCHANGED <<keys_now, keys_before, mouse_buttons_now,
                   mouse_buttons_before, mouse_now, mouse_before, mouse_wheel,
                   hide_mouse, hide_keys, current_modifiers>>

old_is_mouse_button_down(button) ==
    LET index == mouse_button_to_index(button) IN
    ~mask_mouse /\ mouse_buttons_now[index].state = Pressed

\* the later revision's is_mouse_button_up: a masked button reads as up
old_is_mouse_button_up_when_masked(button) ==
    LET index == mouse_button_to_index(button) IN
    mask_mouse \/ mouse_buttons_now[index].state = Released

old_is_mouse_button_up(button) ==
    LET index == mouse_button_to_index(button) IN
    ~mask_mouse /\ mouse_buttons_now[index].state = Released

old_is_mouse_button_toggled(button) ==
    LET index == mouse_button_to_index(button) IN
    ~mask_mouse /\ mouse_buttons_before[index].state # mouse_buttons_now[index].state

old_is_mouse_button_toggled_down(button) ==
    old_is_mouse_button_toggled(button) /\ old_is_mouse_button_down(button)

old_is_mouse_button_toggled_up(button) ==
    old_is_mouse_button_toggled(button) /\ old_is_mouse_button_up(button)

(***************************************************************************)
(* The caller.  Each step is one call on the Input; the history variables  *)
(* record what was called since the last prepare_for_next_frame:           *)
(*   keys_touched, buttons_touched  the slots an event was registered for  *)
(*   hidden                         the hide / mask calls made             *)
(*   under_mask                     the slots whose last event came after  *)
(*                                  the hide call for them (Mask* steps)   *)
(*   unmasked                       under_mask as the last prepare found   *)
(*                                  it (Mask* steps)                       *)
(*   frame_keys                     the key table when the frame began     *)
(*   key_events                     per key, the entries its events asked  *)
(*                                  for, in order (Logged* steps only)     *)
(* and, in the Traced* steps only, the calls themselves:                   *)
(*   call                           the last call and its arguments        *)
(*   context                        the argument of the last set_modifiers *)
(*   contexts                       per slot, the context at each of its   *)
(*                                  last two events, oldest first          *)
(*   frame_mouse                    the last position registered before    *)
(*                                  the frame began                        *)
(*   mouse_events                   the positions registered in the frame  *)
(*   wheel_events                   the scroll deltas registered in the    *)
(*                                  frame                                  *)
(* and, in the Motion* steps only:                                         *)
(*   frame_reads                    per frame ended so far, the values of  *)
(*                                  get_mouse_moved and get_mouse_position *)
(*                                  read right before its                  *)
(*                                  prepare_for_next_frame                 *)
(***************************************************************************)
PrepareForNextFrame ==
    /\ prepare_for_next_frame
    /\ keys_touched' = {}
    /\ buttons_touched' = {}
    /\ hidden' = {}
    /\ UNCHANGED <<under_mask, unmasked, frame_keys, key_events>>
    /\ UNCHANGED trace

HideKeyState ==
    /\ hide_key_state
    /\ hidden' = hidden \cup {"keys"}
    /\ UNCHANGED <<keys_touched, buttons_touched, under_mask, unmasked,
                   frame_keys, key_events>>
    /\ UNCHANGED trace

HideMouseState ==
    /\ hide_mouse_state
    /\ hidden' = hidden \cup {"mouse"}
    /\ UNCHANGED <<keys_touched, buttons_touched, under_mask, unmasked,
                   frame_keys, key_events>>
    /\ UNCHANGED trace

SetModifiers ==
    \E m \in Modifiers :
        /\ set_modifiers(m)
        /\ UNCHANGED history
        /\ UNCHANGED trace

\* the modifiers field of the event is whatever the windowing layer put there
RegisterKey(codes) ==
    \E k \in codes, s \in ElementState, m \in Modifiers :
        /\ register_key(KeyboardInput(s, Some(k), m))
        /\ keys_touched' = keys_touched \cup {k}
        /\ UNCHANGED <<buttons_touched, hidden, under_mask, unmasked,
                       frame_keys, key_events>>
        /\ UNCHANGED trace

RegisterKeyNone ==
    \E s \in ElementState, m \in Modifiers :
        /\ register_key(KeyboardInput(s, None, m))
        /\ UNCHANGED history
        /\ UNCHANGED trace

RegisterMouseInput(buttons) ==
    \E b \in buttons, s \in ElementState :
        /\ register_mouse_input(s, b)
        /\ buttons_touched' = buttons_touched \cup {mouse_button_to_index(b)}
        /\ UNCHANGED <<keys_touched, hidden, under_mask, unmasked, frame_keys,
                       key_events>>
        /\ UNCHANGED trace

RegisterMousePosition(positions) ==
    \E p \in positions :
        /\ register_mouse_position(p[1], p[2])
        /\ UNCHANGED history
        /\ UNCHANGED trace

RegisterMouseWheel ==
    \E d \in ScrollDeltas :
        /\ d.kind = "LineDelta" => mouse_wheel + d.y <= MaxWheel
        /\ register_mouse_wheel(d)
        /\ UNCHANGED history
        /\ UNCHANGED trace

\* the whole interface, two keys and one button
Next ==
    \/ PrepareForNextFrame
    \/ HideKeyState
    \/ HideMouseState
    \/ SetModifiers
    \/ RegisterKey(KeyCodes)
    \/ RegisterKeyNone
    \/ RegisterMouseInput({Left})
    \/ RegisterMousePosition({<<3, 6>>})
    \/ RegisterMouseWheel

Spec == Init /\ [][Next]_vars

\* the whole interface, one key and two buttons
NextMouse ==
    \/ PrepareForNextFrame
    \/ HideKeyState
    \/ HideMouseState
    \/ SetModifiers
    \/ RegisterKey({"A"})
    \/ RegisterKeyNone
    \/ RegisterMouseInput(Buttons)
    \/ RegisterMousePosition({<<3, 6>>})
    \/ RegisterMouseWheel

SpecMouse == Init /\ [][NextMouse]_vars

(***************************************************************************)
(* The keyboard alone, unmasked, with its events logged: at most MaxEvents *)
(* per key and frame.                                                      *)
(***************************************************************************)
LoggedPrepareForNextFrame ==
    /\ prepare_for_next_frame
    /\ keys_touched' = {}
    /\ buttons_touched' = {}
    /\ hidden' = {}
    /\ frame_keys' = keys_now
    /\ key_events' = NoEvents
    /\ UNCHANGED <<under_mask, unmasked>>
    /\ UNCHANGED trace

LoggedRegisterKey ==
    \E k \in KeyCodes, s \in ElementState, m \in Modifiers :
        /\ Len(key_events[k]) < MaxEvents
        /\ register_key(KeyboardInput(s, Some(k), m))
        /\ keys_touched' = keys_touched \cup {k}
        /\ key_events' = [key_events EXCEPT
               ![k] = Append(@, ButtonInput(s, current_modifiers))]
        /\ UNCHANGED <<buttons_touched, hidden, under_mask, unmasked,
                       frame_keys>>
        /\ UNCHANGED trace

NextFrame ==
    \/ LoggedPrepareForNextFrame
    \/ LoggedRegisterKey
    \/ RegisterKeyNone
    \/ SetModifiers

SpecFrame == Init /\ [][NextFrame]_vars

(***************************************************************************)
(* One key and one button, remembering which events were registered under  *)
(* a mask and which of them the last prepare_for_next_frame uncovered.     *)
(***************************************************************************)
MaskPrepareForNextFrame ==
    /\ prepare_for_next_frame
    /\ keys_touched' = {}
    /\ buttons_touched' = {}
    /\ hidden' = {}
    /\ under_mask' = {}
    /\ unmasked' = under_mask
    /\ UNCHANGED <<frame_keys, key_events>>
    /\ UNCHANGED trace

MaskRegisterKey ==
    \E s \in ElementState, m \in Modifiers :
        /\ register_key(KeyboardInput(s, Some("A"), m))
        /\ keys_touched' = keys_touched \cup {"A"}
        /\ under_mask' = IF "keys" \in hidden
                         THEN under_mask \cup {KeySlot("A")}
                         ELSE under_mask \ {KeySlot("A")}
        /\ UNCHANGED <<buttons_touched, hidden, unmasked, frame_keys,
                       key_events>>
        /\ UNCHANGED trace

MaskRegisterMouseInput ==
    \E s \in ElementState :
        /\ register_mouse_input(s, Left)
        /\ buttons_touched' = buttons_touched \cup {mouse_button_to_index(Left)}
        /\ under_mask' = IF "mouse" \in hidden
                         THEN under_mask \cup {ButtonSlot(Left)}
                         ELSE under_mask \ {ButtonSlot(Left)}
        /\ UNCHANGED <<keys_touched, hidden, unmasked, frame_keys, key_events>>
        /\ UNCHANGED trace

NextMask ==
    \/ MaskPrepareForNextFrame
    \/ HideKeyState
    \/ HideMouseState
    \/ SetModifiers
    \/ MaskRegisterKey
    \/ RegisterKeyNone
    \/ MaskRegisterMouseInput
    \/ RegisterMousePosition({<<3, 6>>})
    \/ RegisterMouseWheel

SpecMask == Init /\ [][NextMask]_vars

(***************************************************************************)
(* The earlier revision.                                                   *)
(***************************************************************************)
OldPrepareForNextFrame ==
    /\ old_prepare_for_next_frame
    /\ keys_touched' = {}
    /\ buttons_touched' = {}
    /\ hidden' = {}
    /\ UNCHANGED <<under_mask, unmasked, frame_keys, key_events>>
    /\ UNCHANGED trace

MaskMouse ==
    /\ Input_mask_mouse
    /\ hidden' = hidden \cup {"mouse"}
    /\ UNCHANGED <<keys_touched, buttons_touched, under_mask, unmasked,
                   frame_keys, key_events>>
    /\ UNCHANGED trace

NextOld ==
    \/ OldPrepareForNextFrame
    \/ MaskMouse
    \/ SetModifiers
    \/ RegisterKey({"A"})
    \/ RegisterKeyNone
    \/ RegisterMouseInput(Buttons)
    \/ RegisterMousePosition({<<3, 6>>})
    \/ RegisterMouseWheel

SpecOld == Init /\ [][NextOld]_vars

(***************************************************************************)
(* The whole interface on one key and one button, with every call         *)
(* recorded.                                                               *)
(***************************************************************************)
TracedPrepareForNextFrame ==
    /\ prepare_for_next_frame
    /\ call' = <<"prepare_for_next_frame">>
    /\ keys_touched' = {}
    /\ buttons_touched' = {}
    /\ hidden' = {}
    /\ UNCHANGED <<under_mask, unmasked, frame_keys, key_events>>
    /\ UNCHANGED <<context, contexts, frame_mouse, frame_reads, mouse_events, wheel_events>>

TracedHideKeyState ==
    /\ hide_key_state
    /\ call' = <<"hide_key_state">>
    /\ hidden' = hidden \cup {"keys"}
    /\ UNCHANGED <<keys_touched, buttons_touched, under_mask, unmasked,
                   frame_keys, key_events>>
    /\ UNCHANGED <<context, contexts, frame_mouse, frame_reads, mouse_events, wheel_events>>

TracedHideMouseState ==
    /\ hide_mouse_state
    /\ call' = <<"hide_mouse_state">>
    /\ hidden' = hidden \cup {"mouse"}
    /\ UNCHANGED <<keys_touched, buttons_touched, under_mask, unmasked,
                   frame_keys, key_events>>
    /\ UNCHANGED <<context, contexts, frame_mouse, frame_reads, mouse_events, wheel_events>>

TracedSetModifiers ==
    \E m \in Modifiers :
        /\ set_modifiers(m)
        /\ call' = <<"set_modifiers", m>>
        /\ context' = m
        /\ UNCHANGED history
        /\ UNCHANGED <<contexts, frame_mouse, frame_reads, mouse_events, wheel_events>>

\* the event names key A or no key at all, and carries modifiers of its own
TracedRegisterKey ==
    \E s \in ElementState, vk \in {Some("A"), None}, m \in Modifiers :
        /\ register_key(KeyboardInput(s, vk, m))
        /\ call' = <<"register_key", KeyboardInput(s, vk, m)>>
        /\ keys_touched' = keys_touched \cup {vk[i] : i \in DOMAIN vk}
        /\ UNCHANGED <<buttons_touched, hidden, under_mask, unmasked,
                       frame_keys, key_events>>
        /\ UNCHANGED <<context, contexts, frame_mouse, frame_reads, mouse_events,
                       wheel_events>>

TracedRegisterMouseInput ==
    \E s \in ElementState :
        /\ register_mouse_input(s, Left)
        /\ call' = <<"register_mouse_input", s, Left>>
        /\ buttons_touched' = buttons_touched \cup {mouse_button_to_index(Left)}
        /\ UNCHANGED <<keys_touched, hidden, under_mask, unmasked, frame_keys,
                       key_events>>
        /\ UNCHANGED <<context, contexts, frame_mouse, frame_reads, mouse_events,
                       wheel_events>>

TracedRegisterMousePosition ==
    /\ register_mouse_position(3, 6)
    /\ call' = <<"register_mouse_position", 3, 6>>
    /\ UNCHANGED history
    /\ UNCHANGED <<context, contexts, frame_mouse, frame_reads, mouse_events, wheel_events>>

TracedRegisterMouseWheel ==
    \E d \in ScrollDeltas :
        /\ d.kind = "LineDelta" => mouse_wheel + d.y <= MaxWheel
        /\ register_mouse_wheel(d)
        /\ call' = <<"register_mouse_wheel", d>>
        /\ UNCHANGED history
        /\ UNCHANGED <<context, contexts, frame_mouse, frame_reads, mouse_events,
                       wheel_events>>

NextTrace ==
    \/ TracedPrepareForNextFrame
    \/ TracedHideKeyState
    \/ TracedHideMouseState
    \/ TracedSetModifiers
    \/ TracedRegisterKey
    \/ TracedRegisterMouseInput
    \/ TracedRegisterMousePosition
    \/ TracedRegisterMouseWheel

SpecTrace == Init /\ [][NextTrace]_vars

(***************************************************************************)
(* One key and one button under the contexts CTRL and SHIFT, remembering   *)
(* for each slot the contexts its last two events were registered under.   *)
(***************************************************************************)
\* the contexts of the last two events, after one more under context c
LastTwo(seq, c) == IF Len(seq) < 2 THEN Append(seq, c) ELSE <<seq[2], c>>

ModSetModifiers ==
    \E m \in {CTRL, SHIFT} :
        /\ set_modifiers(m)
        /\ context' = m
        /\ UNCHANGED history
        /\ UNCHANGED <<call, contexts, frame_mouse, frame_reads, mouse_events, wheel_events>>

ModRegisterKey ==
    \E s \in ElementState :
        /\ register_key(KeyboardInput(s, Some("A"), ModEmpty))
        /\ keys_touched' = keys_touched \cup {"A"}
        /\ contexts' = [contexts EXCEPT ![KeySlot("A")] = LastTwo(@, context)]
        /\ UNCHANGED <<buttons_touched, hidden, under_mask, unmasked,
                       frame_keys, key_events>>
        /\ UNCHANGED <<call, context, frame_mouse, frame_reads, mouse_events, wheel_events>>

ModRegisterMouseInput ==
    \E s \in ElementState :
        /\ register_mouse_input(s, Left)
        /\ buttons_touched' = buttons_touched \cup {mouse_button_to_index(Left)}
        /\ contexts' = [contexts EXCEPT
               ![ButtonSlot(Left)] = LastTwo(@, context)]
        /\ UNCHANGED <<keys_touched, hidden, under_mask, unmasked, frame_keys,
                       key_events>>
        /\ UNCHANGED <<call, context, frame_mouse, frame_reads, mouse_events, wheel_events>>

NextMods ==
    \/ PrepareForNextFrame
    \/ HideKeyState
    \/ HideMouseState
    \/ ModSetModifiers
    \/ ModRegisterKey
    \/ ModRegisterMouseInput

SpecMods == Init /\ [][NextMods]_vars

(***************************************************************************)
(* The pointer alone: cursor positions and scroll deltas, logged per       *)
(* frame, at most MaxEvents of each.                                       *)
(***************************************************************************)
\* scroll deltas of one line and of 2^24 lines, where f32 starts to round
PointerDeltas == {LineDelta(0, 1), LineDelta(1, 2^24), PixelDelta(1, 1)}

\* the last position registered so far
LastPosition ==
    IF mouse_events # <<>> THEN mouse_events[Len(mouse_events)] ELSE frame_mouse

PointerPrepareForNextFrame ==
    /\ prepare_for_next_frame
    /\ call' = <<"prepare_for_next_frame">>
    /\ frame_mouse' = LastPosition
    /\ mouse_events' = <<>>
    /\ wheel_events' = <<>>
    /\ UNCHANGED history
    /\ UNCHANGED <<context, contexts, frame_reads>>

PointerRegisterMousePosition ==
    \E p \in Positions :
        /\ Len(mouse_events) < MaxEvents
        /\ register_mouse_position(p[1], p[2])
        /\ call' = <<"register_mouse_position", p[1], p[2]>>
        /\ mouse_events' = Append(mouse_events, p)
        /\ UNCHANGED history
        /\ UNCHANGED <<context, contexts, frame_mouse, frame_reads, wheel_events>>

PointerRegisterMouseWheel ==
    \E d \in PointerDeltas :
        /\ Len(wheel_events) < MaxEvents
        /\ register_mouse_wheel(d)
        /\ call' = <<"register_mouse_wheel", d>>
        /\ wheel_events' = Append(wheel_events, d)
        /\ UNCHANGED history
        /\ UNCHANGED <<context, contexts, frame_mouse, frame_reads, mouse_events>>

NextPointer ==
    \/ PointerPrepareForNextFrame
    \/ PointerRegisterMousePosition
    \/ PointerRegisterMouseWheel

SpecPointer == Init /\ [][NextPointer]_vars

(***************************************************************************)
(* The button tables in full, NUM_MOUSE_BUTTONS entries each, under        *)
(* events for the buttons at the ends of the index range.                  *)
(***************************************************************************)
AllMouseButtonsDefault == [i \in 0..(NUM_MOUSE_BUTTONS - 1) |-> DefaultInput]

InitButtons ==
    /\ keys_now = KeysDefault
    /\ keys_before = KeysDefault
    /\ mouse_buttons_now = AllMouseButtonsDefault
    /\ mouse_buttons_before = AllMouseButtonsDefault
    /\ mouse_now = <<0, 0>>
    /\ mouse_before = <<0, 0>>
    /\ mouse_wheel = 0
    /\ hide_mouse = FALSE
    /\ hide_keys = FALSE
    /\ current_modifiers = ModEmpty
    /\ mask_mouse = FALSE
    /\ NoCalls

ButtonsRegisterMouseInput ==
    \E b \in BoundaryButtons, s \in ElementState :
        /\ register_mouse_input(s, b)
        /\ call' = <<"register_mouse_input", s, b>>
        /\ buttons_touched' = buttons_touched \cup {mouse_button_to_index(b)}
        /\ UNCHANGED <<keys_touched, hidden, under_mask, unmasked, frame_keys,
                       key_events>>
        /\ UNCHANGED <<context, contexts, frame_mouse, frame_reads, mouse_events,
                       wheel_events>>

NextButtons == ButtonsRegisterMouseInput

SpecButtons == InitButtons /\ [][NextButtons]_vars

(***************************************************************************)
(* Two keys and two buttons, every call recorded; the context is set at    *)
(* most once, before any other call, and the wheel is scrolled at most     *)
(* once a frame.                                                           *)
(***************************************************************************)
SlotsRegisterMouseWheel ==
    /\ mouse_wheel = 0
    /\ register_mouse_wheel(LineDelta(0, 1))
    /\ call' = <<"register_mouse_wheel", LineDelta(0, 1)>>
    /\ UNCHANGED history
    /\ UNCHANGED <<context, contexts, frame_mouse, frame_reads, mouse_events, wheel_events>>

SlotsSetModifiers ==
    /\ call = <<"default">>
    /\ set_modifiers(SHIFT)
    /\ call' = <<"set_modifiers", SHIFT>>
    /\ context' = SHIFT
    /\ UNCHANGED history
    /\ UNCHANGED <<contexts, frame_mouse, frame_reads, mouse_events, wheel_events>>

SlotsRegisterKey ==
    \E k \in KeyCodes, s \in ElementState :
        /\ register_key(KeyboardInput(s, Some(k), ModEmpty))
        /\ call' = <<"register_key", KeyboardInput(s, Some(k), ModEmpty)>>
        /\ keys_touched' = keys_touched \cup {k}
        /\ UNCHANGED <<buttons_touched, hidden, under_mask, unmasked,
                       frame_keys, key_events>>
        /\ UNCHANGED <<context, contexts, frame_mouse, frame_reads, mouse_events,
                       wheel_events>>

SlotsRegisterMouseInput ==
    \E b \in Buttons, s \in ElementState :
        /\ register_mouse_input(s, b)
        /\ call' = <<"register_mouse_input", s, b>>
        /\ buttons_touched' = buttons_touched \cup {mouse_button_to_index(b)}
        /\ UNCHANGED <<keys_touched, hidden, under_mask, unmasked, frame_keys,
                       key_events>>
        /\ UNCHANGED <<context, contexts, frame_mouse, frame_reads, mouse_events,
                       wheel_events>>

NextSlots ==
    \/ SlotsSetModifiers
    \/ TracedPrepareForNextFrame
    \/ TracedHideKeyState
    \/ TracedHideMouseState
    \/ SlotsRegisterKey
    \/ SlotsRegisterMouseInput
    \/ TracedRegisterMousePosition
    \/ SlotsRegisterMouseWheel

SpecSlots == Init /\ [][NextSlots]_vars

(***************************************************************************)
(* The whole interface on one key and one button, fed through              *)
(* register_event.                                                         *)
(***************************************************************************)
\* the second position has an x that f32 cannot hold
EventPositions == {<<3, 6>>, <<2^24 + 1, 1>>}

WindowEvents ==
    {KeyboardInputEvent(KeyboardInput(s, vk, ModEmpty)) :
         s \in ElementState, vk \in {Some("A"), None}}
    \cup {CursorMoved(p[1], p[2]) : p \in EventPositions}
    \cup {MouseWheel(d) : d \in ScrollDeltas}
    \cup {MouseInput(s, Left) : s \in ElementState}
    \cup {ModifiersChanged(m) : m \in Modifiers}
    \cup {Focused}

Events == {WindowEvent(we) : we \in WindowEvents} \cup {Suspended}

\* the key, the button and the context an event is about, if any
EventKeys(ev) ==
    IF ev.kind = "WindowEvent" /\ ev.event.kind = "KeyboardInput"
    THEN {ev.event.input.virtual_keycode[i] :
              i \in DOMAIN ev.event.input.virtual_keycode}
    ELSE {}

EventButtons(ev) ==
    IF ev.kind = "WindowEvent" /\ ev.event.kind = "MouseInput"
    THEN {mouse_button_to_index(ev.event.button)}
    ELSE {}

EventContext(ev) ==
    IF ev.kind = "WindowEvent" /\ ev.event.kind = "ModifiersChanged"
    THEN ev.event.modifiers
    ELSE context

RegisterEvent ==
    \E ev \in Events :
        /\ (/\ ev.kind = "WindowEvent"
            /\ ev.event.kind = "MouseWheel"
            /\ ev.event.delta.kind = "LineDelta") =>
               mouse_wheel + ev.event.delta.y <= MaxWheel
        /\ register_event(ev)
        /\ call' = <<"register_event", ev>>
        /\ keys_touched' = keys_touched \cup EventKeys(ev)
        /\ buttons_touched' = buttons_touched \cup EventButtons(ev)
        /\ context' = EventContext(ev)
        /\ UNCHANGED <<hidden, under_mask, unmasked, frame_keys, key_events>>
        /\ UNCHANGED <<contexts, frame_mouse, frame_reads, mouse_events, wheel_events>>

NextEvents ==
    \/ TracedPrepareForNextFrame
    \/ TracedHideKeyState
    \/ TracedHideMouseState
    \/ RegisterEvent

SpecEvents == Init /\ [][NextEvents]_vars

(***************************************************************************)
(* The caller that reads get_mouse_moved and get_mouse_position right      *)
(* before every prepare_for_next_frame, with cursor positions far enough   *)
(* apart for a difference to need more than 24 bits.                       *)
(***************************************************************************)
MotionPositions ==
    {<<1, 1>>, <<-(2^24), 3>>, <<2^23, -(2^23)>>, <<-(2^23), 2^23>>}

MotionPrepareForNextFrame ==
    /\ Len(frame_reads) < MaxFrames
    /\ frame_reads' = Append(frame_reads, [moved |-> get_mouse_moved,
                                           position |-> get_mouse_position])
    /\ prepare_for_next_frame
    /\ call' = <<"prepare_for_next_frame">>
    /\ UNCHANGED history
    /\ UNCHANGED <<context, contexts, frame_mouse, mouse_events, wheel_events>>

MotionRegisterMousePosition ==
    \E p \in MotionPositions :
        /\ register_mouse_position(p[1], p[2])
        /\ call' = <<"register_mouse_position", p[1], p[2]>>
        /\ UNCHANGED history
        /\ UNCHANGED <<context, contexts, frame_mouse, frame_reads,
                       mouse_events, wheel_events>>

NextMotion ==
    \/ MotionPrepareForNextFrame
    \/ MotionRegisterMousePosition
    \/ TracedHideMouseState
    \/ TracedRegisterMouseWheel

SpecMotion == Init /\ [][NextMotion]_vars

(***************************************************************************)
(* Properties.                                                             *)
(***************************************************************************)
\* the states of a key's logged events, in order
States(events) == [i \in 1..Len(events) |-> events[i].state]

\* the entry a key held just before the last of its logged events
HeldBeforeLast(k) ==
    IF Len(key_events[k]) = 1
    THEN frame_keys[k]
    ELSE key_events[k][Len(key_events[k]) - 1]

\* C1: after one or more register_key calls for a key in a frame, keys_now
\* holds the state of the last event and keys_before holds the entry
\* keys_now held just before that event: the event before it, or the entry
\* the frame began with when it was the only one.
C1_LastEventShifts ==
    \A k \in KeyCodes :
        key_events[k] # <<>> =>
            /\ keys_now[k].state = key_events[k][Len(key_events[k])].state
            /\ keys_before[k] = HeldBeforeLast(k)

C1_Witness ==
    /\ Len(key_events["A"]) = 3
    /\ key_events["A"][2] # key_events["A"][3]
    /\ key_events["A"][2] # frame_keys["A"]
    /\ Len(key_events["F"]) = 1
    /\ frame_keys["F"] = ButtonInput(Pressed, SHIFT)

\* C2: in a frame that began with every key released and in which keys are
\* not hidden, three events Pressed, Released, Pressed for one key read as
\* toggled down, not toggled up, down; Released, Pressed, Released read as
\* not toggled down, toggled up, not down.
C2_TriStateCollapse ==
    \A k \in KeyCodes :
        (frame_keys = KeysDefault /\ "keys" \notin hidden) =>
            /\ States(key_events[k]) = <<Pressed, Released, Pressed>> =>
                   /\ is_key_toggled_down(k)
                   /\ ~is_key_toggled_up(k)
                   /\ is_key_down(k)
            /\ States(key_events[k]) = <<Released, Pressed, Released>> =>
                   /\ ~is_key_toggled_down(k)
                   /\ is_key_toggled_up(k)
                   /\ ~is_key_down(k)

C2_Witness ==
    /\ frame_keys = KeysDefault
    /\ hidden = {}
    /\ States(key_events["A"]) = <<Pressed, Released, Pressed>>
    /\ States(key_events["F"]) = <<Released, Pressed, Released>>

\* C3: when nothing has been registered since the last
\* prepare_for_next_frame, no key and no button reads as toggled, toggled
\* down or toggled up.
C3_ToggleReset ==
    (keys_touched = {} /\ buttons_touched = {}) =>
        /\ \A k \in KeyCodes :
               /\ ~is_key_toggled(k)
               /\ ~is_key_toggled_down(k)
               /\ ~is_key_toggled_up(k)
        /\ \A b \in Buttons : ~is_mouse_button_toggled(b)

C3_Witness ==
    /\ keys_touched = {}
    /\ buttons_touched = {}
    /\ hidden = {}
    /\ is_key_down("A")
    /\ ~is_key_down("F")
    /\ is_mouse_button_down(Left)

\* C4: a key or button no event was registered for in the current frame
\* never reads as toggled, whatever else was called in the frame.
C4_UntouchedNeverToggled ==
    /\ \A k \in KeyCodes : k \notin keys_touched => ~is_key_toggled(k)
    /\ \A b \in Buttons :
           mouse_button_to_index(b) \notin buttons_touched =>
               ~is_mouse_button_toggled(b)

C4_Witness ==
    /\ keys_touched = {"F"}
    /\ buttons_touched = {}
    /\ is_key_toggled("F")
    /\ keys_now["A"].state = Pressed
    /\ mouse_buttons_now[mouse_button_to_index(Left)].state = Pressed
    /\ hidden = {"mouse"}
    /\ mouse_wheel > 0
    /\ mouse_now # mouse_before
    /\ current_modifiers # keys_now["A"].modifiers

\* C5 as claimed: is_key_toggled is the change between the state the key
\* began the frame with and the state it has now.
C5_NetTransition ==
    \A k \in KeyCodes :
        "keys" \notin hidden =>
            (is_key_toggled(k) <=> frame_keys[k].state # keys_now[k].state)

\* C5, amended: is_key_toggled is the change made by the last event
\* registered for the key in the frame: it holds exactly when there was an
\* event and the state the key held just before the last one differs from
\* that event's state.
C5_LastTransition ==
    \A k \in KeyCodes :
        "keys" \notin hidden =>
            (is_key_toggled(k) <=>
                /\ key_events[k] # <<>>
                /\ HeldBeforeLast(k).state
                       # key_events[k][Len(key_events[k])].state)

C5_Witness ==
    /\ hidden = {}
    /\ frame_keys["A"].state = Released
    /\ States(key_events["A"]) = <<Pressed, Released>>
    /\ is_key_toggled("A")
    /\ frame_keys["F"].state = Released
    /\ States(key_events["F"]) = <<Pressed, Pressed>>
    /\ ~is_key_toggled("F")

\* C6: from hide_key_state to the next prepare_for_next_frame every key
\* reads as not down, up, and not toggled in any way; the call that hides
\* the keys leaves both key tables as they were.
C6_KeysMasked ==
    /\ [](\A k \in KeyCodes :
              "keys" \in hidden =>
                  /\ ~is_key_down(k)
                  /\ is_key_up(k)
                  /\ ~is_key_toggled(k)
                  /\ ~is_key_toggled_down(k)
                  /\ ~is_key_toggled_up(k))
    /\ [][("keys" \notin hidden /\ "keys" \in hidden') =>
              (keys_now' = keys_now /\ keys_before' = keys_before)]_vars

C6_Witness ==
    /\ "keys" \in hidden
    /\ keys_now["A"].state = Pressed
    /\ keys_before["A"].state = Released
    /\ keys_now["F"].state = Released
    /\ keys_before["F"].state = Pressed

\* C7: from hide_mouse_state to the next prepare_for_next_frame every
\* button reads as not down, up, and not toggled in any way.
C7_MouseMasked ==
    \A b \in Buttons :
        "mouse" \in hidden =>
            /\ ~is_mouse_button_down(b)
            /\ is_mouse_button_up(b)
            /\ ~is_mouse_button_toggled(b)
            /\ ~is_mouse_button_toggled_down(b)
            /\ ~is_mouse_button_toggled_up(b)

C7_Witness ==
    /\ "mouse" \in hidden
    /\ mouse_buttons_now[mouse_button_to_index(Other(255))].state = Pressed
    /\ mouse_buttons_before[mouse_button_to_index(Other(255))].state = Released
    /\ mouse_buttons_now[mouse_button_to_index(Left)].state = Released
    /\ mouse_buttons_before[mouse_button_to_index(Left)].state = Pressed

\* C8: in the earlier revision, from mask_mouse to the next
\* prepare_for_next_frame all five mouse-button queries answer false for
\* every button.
C8_MaskedMouseAllFalse ==
    \A b \in Buttons :
        "mouse" \in hidden =>
            /\ ~old_is_mouse_button_down(b)
            /\ ~old_is_mouse_button_up(b)
            /\ ~old_is_mouse_button_toggled(b)
            /\ ~old_is_mouse_button_toggled_down(b)
            /\ ~old_is_mouse_button_toggled_up(b)

C8_Witness ==
    /\ "mouse" \in hidden
    /\ mouse_buttons_now[mouse_button_to_index(Left)].state = Released
    /\ mouse_buttons_before[mouse_button_to_index(Left)].state = Pressed
    /\ mouse_buttons_now[mouse_button_to_index(Other(255))].state = Pressed

\* C9: each hide flag is set exactly from its hide call to the next
\* prepare_for_next_frame, which clears both; in the state that prepare
\* leaves, is_key_down and is_mouse_button_down read the tables as they
\* stood before it, events registered under the mask included.
C9_MaskLifetime ==
    /\ [](/\ hide_keys = ("keys" \in hidden)
          /\ hide_mouse = ("mouse" \in hidden))
    /\ [][(hidden # {} /\ hidden' = {}) =>
              /\ \A k \in KeyCodes :
                     /\ is_key_down(k)' = (keys_now[k].state = Pressed)
                     /\ is_key_up(k)' = (keys_now[k].state = Released)
              /\ \A b \in Buttons :
                     LET index == mouse_button_to_index(b) IN
                     /\ is_mouse_button_down(b)'
                            = (mouse_buttons_now[index].state = Pressed)
                     /\ is_mouse_button_up(b)'
                            = (mouse_buttons_now[index].state = Released)]_vars

\* a press registered for each slot while it was hidden is read as down in
\* the frame after
C9_Witness ==
    /\ unmasked = {KeySlot("A"), ButtonSlot(Left)}
    /\ hidden = {}
    /\ keys_touched = {}
    /\ buttons_touched = {}
    /\ is_key_down("A")
    /\ is_key_toggled("A") = FALSE
    /\ is_mouse_button_down(Left)

\* what the key queries and the mouse-button queries answer
KeyAnswers ==
    [k \in KeyCodes |->
        <<is_key_down(k), is_key_up(k), is_key_toggled(k),
          is_key_toggled_down(k), is_key_toggled_up(k),
          key_modifiers_state(k)>>]

MouseAnswers ==
    [b \in Buttons |->
        <<is_mouse_button_down(b), is_mouse_button_up(b),
          is_mouse_button_toggled(b), is_mouse_button_toggled_down(b),
          is_mouse_button_toggled_up(b), mouse_button_modifiers_state(b)>>]

\* C10: the call that hides the keys changes the answer of no mouse-button
\* query, and the call that hides the mouse changes the answer of no key
\* query.
C10_MasksIndependent ==
    [][/\ ("keys" \notin hidden /\ "keys" \in hidden') =>
              MouseAnswers' = MouseAnswers
       /\ ("mouse" \notin hidden /\ "mouse" \in hidden') =>
              KeyAnswers' = KeyAnswers]_vars

C10_Witness ==
    /\ hidden = {"keys"}
    /\ is_mouse_button_toggled_down(Other(255))
    /\ is_mouse_button_toggled_up(Left)
    /\ keys_now["A"].state = Pressed

\* the context a slot's last event was registered under
LastContext(slot) == contexts[slot][Len(contexts[slot])]

\* C11: once an event has been registered for a key or a button, its
\* modifiers query answers the context that was in force at the last event
\* registered for it, and nothing of the contexts of its earlier events.
C11_ModifierCapture ==
    /\ contexts[KeySlot("A")] # <<>> =>
           key_modifiers_state("A") = LastContext(KeySlot("A"))
    /\ contexts[ButtonSlot(Left)] # <<>> =>
           mouse_button_modifiers_state(Left) = LastContext(ButtonSlot(Left))

\* Released under CTRL then Pressed under SHIFT for the key: shift and not
\* ctrl; the other way round for the button
C11_Witness ==
    /\ contexts[KeySlot("A")] = <<CTRL, SHIFT>>
    /\ keys_touched = {"A"}
    /\ keys_before["A"].state = Released
    /\ keys_now["A"].state = Pressed
    /\ "shift" \in key_modifiers_state("A")
    /\ "ctrl" \notin key_modifiers_state("A")
    /\ contexts[ButtonSlot(Left)] = <<SHIFT, CTRL>>
    /\ "ctrl" \in mouse_button_modifiers_state(Left)
    /\ "shift" \notin mouse_button_modifiers_state(Left)

\* C12: set_modifiers(m) makes m the context and changes nothing else, the
\* stored entries included; the context stays the argument of the last
\* set_modifiers through every other call, prepare_for_next_frame among
\* them, and every register_key and register_mouse_input stores it.
C12_ContextPersists ==
    /\ [](current_modifiers = context)
    /\ [][/\ call'[1] = "set_modifiers" =>
                 /\ current_modifiers' = call'[2]
                 /\ UNCHANGED <<keys_now, keys_before, mouse_buttons_now,
                                mouse_buttons_before, mouse_now, mouse_before,
                                mouse_wheel, hide_mouse, hide_keys>>
          /\ \A k \in KeyCodes :
                 (/\ call'[1] = "register_key"
                  /\ call'[2].virtual_keycode = Some(k)) =>
                     key_modifiers_state(k)' = context
          /\ \A b \in Buttons :
                 (call'[1] = "register_mouse_input" /\ call'[3] = b) =>
                     mouse_button_modifiers_state(b)' = context]_vars

\* set_modifiers(SHIFT) came after the events of the key and the button,
\* whose entries still hold the empty context, and the
\* prepare_for_next_frame after it left SHIFT in force
C12_Witness ==
    /\ call = <<"prepare_for_next_frame">>
    /\ context = SHIFT
    /\ current_modifiers = SHIFT
    /\ keys_now["A"] = ButtonInput(Pressed, ModEmpty)
    /\ mouse_buttons_now[mouse_button_to_index(Left)]
           = ButtonInput(Pressed, ModEmpty)

\* C13: register_key for an event that names a key leaves in that key's
\* current entry the state of the event and the modifier context of the
\* Input, whatever modifiers the event carries.
C13_StoresContext ==
    [][\A k \in KeyCodes :
           (call'[1] = "register_key" /\ call'[2].virtual_keycode = Some(k)) =>
               keys_now'[k] = ButtonInput(call'[2].state, current_modifiers)]_vars

\* the event carried SHIFT while the context was empty, and the other way
\* round for the entry the key held before
C13_Witness ==
    /\ call = <<"register_key", KeyboardInput(Pressed, Some("A"), SHIFT)>>
    /\ current_modifiers = ModEmpty
    /\ key_modifiers_state("A") = ModEmpty
    /\ keys_before["A"] = ButtonInput(Released, SHIFT)

\* C14: while the keys (the mouse buttons) are hidden the modifiers query
\* of a key (a button) still answers the context of the last event
\* registered for it, and neither the hide call nor the
\* prepare_for_next_frame that ends the hiding changes the answer.
C14_ModifiersNotMasked ==
    /\ []( /\ ("keys" \in hidden /\ contexts[KeySlot("A")] # <<>>) =>
                  key_modifiers_state("A") = LastContext(KeySlot("A"))
           /\ ("mouse" \in hidden /\ contexts[ButtonSlot(Left)] # <<>>) =>
                  mouse_button_modifiers_state(Left)
                      = LastContext(ButtonSlot(Left)) )
    /\ [][hidden' # hidden =>
              /\ key_modifiers_state("A")' = key_modifiers_state("A")
              /\ mouse_button_modifiers_state(Left)'
                     = mouse_button_modifiers_state(Left)]_vars

\* both tables hidden, a pressed key that reads as not down and still
\* reports CTRL, a pressed button that still reports SHIFT
C14_Witness ==
    /\ hidden = {"keys", "mouse"}
    /\ keys_now["A"].state = Pressed
    /\ ~is_key_down("A")
    /\ LastContext(KeySlot("A")) = CTRL
    /\ key_modifiers_state("A") = CTRL
    /\ mouse_buttons_now[mouse_button_to_index(Left)].state = Pressed
    /\ ~is_mouse_button_down(Left)
    /\ LastContext(ButtonSlot(Left)) = SHIFT
    /\ mouse_button_modifiers_state(Left) = SHIFT

\* C15: after one or more register_mouse_position calls in a frame,
\* get_mouse_position answers the coordinates of the last of them, and no
\* register_mouse_position call changes the previous-frame position.
C15_LastPositionWins ==
    /\ [](mouse_events # <<>> =>
              get_mouse_position = mouse_events[Len(mouse_events)])
    /\ [][call'[1] = "register_mouse_position" =>
              mouse_before' = mouse_before]_vars

\* three positions registered in a frame that began at (1, 1)
C15_Witness ==
    /\ frame_mouse = <<1, 1>>
    /\ mouse_events = <<<<3, 6>>, <<1, 1>>, <<3, 6>>>>
    /\ get_mouse_position = <<3, 6>>
    /\ mouse_before = <<1, 1>>

\* C16: get_mouse_moved is the last position registered minus the last
\* position registered before the frame began ((0, 0) when there was
\* none): the zero vector as long as no position has been registered in
\* the frame; prepare_for_next_frame leaves get_mouse_position as it was.
C16_MovedSinceFrameStart ==
    /\ [](/\ get_mouse_moved = <<f32_sub(LastPosition[1], frame_mouse[1]),
                                 f32_sub(LastPosition[2], frame_mouse[2])>>
          /\ mouse_events = <<>> => get_mouse_moved = <<0, 0>>)
    /\ [][call'[1] = "prepare_for_next_frame" =>
              get_mouse_position' = get_mouse_position]_vars

\* the frame began at (3, 6), right after the prepare_for_next_frame
C16_Witness ==
    /\ call = <<"prepare_for_next_frame">>
    /\ frame_mouse = <<3, 6>>
    /\ mouse_events = <<>>
    /\ get_mouse_position = <<3, 6>>
    /\ get_mouse_moved = <<0, 0>>

\* the vertical components of the LineDelta events of the frame, in order
IsLineDelta(d) == d.kind = "LineDelta"
LineYs ==
    LET lines == SelectSeq(wheel_events, IsLineDelta)
    IN  [i \in 1..Len(lines) |-> lines[i].y]

\* the orders a sequence of n events can be taken in
Orders(n) == {p \in [1..n -> 1..n] : \A i, j \in 1..n : p[i] = p[j] => i = j}

\* the f32 sum of a sequence, added from the left
RECURSIVE F32Sum(_)
F32Sum(ys) ==
    IF ys = <<>> THEN 0
    ELSE f32_add(F32Sum(SubSeq(ys, 1, Len(ys) - 1)), ys[Len(ys)])

\* the sum of a sequence, and of its magnitudes, without rounding
RECURSIVE Sum(_)
Sum(ys) == IF ys = <<>> THEN 0 ELSE Sum(Tail(ys)) + Head(ys)

RECURSIVE SumAbs(_)
SumAbs(ys) == IF ys = <<>> THEN 0 ELSE SumAbs(Tail(ys)) + Abs(Head(ys))

\* C17 as claimed: get_mouse_wheel is the sum of the vertical components of
\* the LineDelta events registered since the last prepare_for_next_frame,
\* whatever order they are added in.
C17_OrderIndependentSum ==
    \A p \in Orders(Len(LineYs)) :
        get_mouse_wheel = F32Sum([i \in 1..Len(LineYs) |-> LineYs[p[i]]])

\* C17, amended: get_mouse_wheel is the vertical components of the
\* LineDelta events registered since the last prepare_for_next_frame added
\* one by one in the order of registration, each addition rounded to f32
\* (0 when there is none); it is their exact sum, the same in every order,
\* when the magnitudes of these integers add up to at most 2^24.
C17_WheelSum ==
    /\ get_mouse_wheel = F32Sum(LineYs)
    /\ SumAbs(LineYs) <= 2^24 =>
           /\ get_mouse_wheel = Sum(LineYs)
           /\ C17_OrderIndependentSum

\* one line, a pixel delta, then 2^24 lines: the last addition rounds
C17_Witness ==
    /\ wheel_events = <<LineDelta(0, 1), PixelDelta(1, 1), LineDelta(1, 2^24)>>
    /\ get_mouse_wheel = 2^24
    /\ Sum(LineYs) = 2^24 + 1

\* C18: register_mouse_wheel with a LineDelta adds the vertical component
\* to the wheel and nothing of the horizontal one, so a purely horizontal
\* delta leaves the wheel as it was; with a PixelDelta it leaves every
\* field of the Input as it was.
C18_OnlyVerticalLines ==
    [][\A d \in ScrollDeltas :
           call' = <<"register_mouse_wheel", d>> =>
               /\ d.kind = "LineDelta" =>
                      mouse_wheel' = f32_add(mouse_wheel, d.y)
               /\ (d.kind = "LineDelta" /\ d.y = 0) =>
                      mouse_wheel' = mouse_wheel
               /\ d.kind = "PixelDelta" => UNCHANGED input]_vars

\* a pixel delta was the last call, on an Input that holds a wheel value,
\* a position, a pressed key and button, a context and a hide flag
C18_Witness ==
    /\ call = <<"register_mouse_wheel", PixelDelta(1, 1)>>
    /\ mouse_wheel = 1
    /\ mouse_now = <<3, 6>>
    /\ mouse_before = <<0, 0>>
    /\ keys_now["A"] = ButtonInput(Pressed, SHIFT)
    /\ mouse_buttons_now[mouse_button_to_index(Left)].state = Pressed
    /\ current_modifiers = ModEmpty
    /\ hide_mouse

\* C19: register_key for an event without key code completes and leaves
\* every field of the Input as it was: both key tables, both button
\* tables, both positions, the wheel, the hide flags and the context.
C19_NoKeyCodeDropped ==
    [][(call'[1] = "register_key" /\ call'[2].virtual_keycode = None) =>
           UNCHANGED <<keys_now, keys_before, mouse_buttons_now,
                       mouse_buttons_before, mouse_now, mouse_before,
                       mouse_wheel, hide_mouse, hide_keys,
                       current_modifiers>>]_vars

\* a Pressed event without key code was the last call, on an Input whose
\* key A is released and was pressed, and whose other fields are not the
\* default
C19_Witness ==
    /\ call = <<"register_key", KeyboardInput(Pressed, None, ModEmpty)>>
    /\ keys_now["A"] = ButtonInput(Released, ModEmpty)
    /\ keys_before["A"] = ButtonInput(Pressed, SHIFT)
    /\ mouse_buttons_now[mouse_button_to_index(Left)].state = Pressed
    /\ mouse_now = <<3, 6>>
    /\ mouse_wheel = 1
    /\ hide_keys
    /\ current_modifiers = SHIFT

\* the two entries stored for a button
ButtonEntries(b) ==
    <<mouse_buttons_now[mouse_button_to_index(b)],
      mouse_buttons_before[mouse_button_to_index(b)]>>

\* C20: mouse_button_to_index gives Left 0, Right 1, Middle 2 and Other(n)
\* 3 + n; every button's index is below NUM_MOUSE_BUTTONS = 259 and inside
\* the button tables, and no two buttons share one.  A register_mouse_input
\* call, for Other(255) too, stores its entry and changes the entries of no
\* other button.
C20_ButtonIndices ==
    /\ [](/\ mouse_button_to_index(Left) = 0
          /\ mouse_button_to_index(Right) = 1
          /\ mouse_button_to_index(Middle) = 2
          /\ \A n \in 0..255 : mouse_button_to_index(Other(n)) = 3 + n
          /\ NUM_MOUSE_BUTTONS = 259
          /\ \A b \in AllButtons :
                 /\ mouse_button_to_index(b) < NUM_MOUSE_BUTTONS
                 /\ mouse_button_to_index(b) \in DOMAIN mouse_buttons_now
                 /\ mouse_button_to_index(b) \in DOMAIN mouse_buttons_before
          /\ Cardinality({mouse_button_to_index(b) : b \in AllButtons})
                 = Cardinality(AllButtons))
    /\ [][\A b \in BoundaryButtons, s \in ElementState :
              call' = <<"register_mouse_input", s, b>> =>
                  /\ ButtonEntries(b)' =
                         <<ButtonInput(s, current_modifiers),
                           mouse_buttons_now[mouse_button_to_index(b)]>>
                  /\ \A other \in BoundaryButtons \ {b} :
                         ButtonEntries(other)' = ButtonEntries(other)
                  /\ \A i \in DOMAIN mouse_buttons_now
                             \ {mouse_button_to_index(b)} :
                         /\ mouse_buttons_now'[i] = mouse_buttons_now[i]
                         /\ mouse_buttons_before'[i] = mouse_buttons_before[i]
       ]_vars

\* Other(255) was pressed last, after Other(0) and Left; Right and Middle
\* are as they began
C20_Witness ==
    /\ call = <<"register_mouse_input", Pressed, Other(255)>>
    /\ mouse_buttons_now[258].state = Pressed
    /\ ButtonEntries(Other(0))[1].state = Pressed
    /\ ButtonEntries(Left)[1].state = Pressed
    /\ ButtonEntries(Right) = <<DefaultInput, DefaultInput>>
    /\ ButtonEntries(Middle) = <<DefaultInput, DefaultInput>>

\* everything a register_key call for key k must leave alone
BesidesKey(k) ==
    <<[other \in KeyCodes \ {k} |-> <<keys_now[other], keys_before[other]>>],
      mouse_buttons_now, mouse_buttons_before, mouse_now, mouse_before,
      mouse_wheel, hide_mouse, hide_keys, current_modifiers>>

\* everything a register_mouse_input call for button b must leave alone
BesidesButton(b) ==
    <<[i \in DOMAIN mouse_buttons_now \ {mouse_button_to_index(b)} |->
          <<mouse_buttons_now[i], mouse_buttons_before[i]>>],
      keys_now, keys_before, mouse_now, mouse_before, mouse_wheel,
      hide_mouse, hide_keys, current_modifiers>>

\* C21: register_key for key k changes nothing but keys_before[k] and
\* keys_now[k]: the entries of every other key, both button tables, both
\* positions, the wheel, both hide flags and the context stay as they
\* were; register_mouse_input for button b likewise changes nothing but
\* the two entries of b.
C21_RegistrationIsLocal ==
    [][/\ \A k \in KeyCodes :
              (/\ call'[1] = "register_key"
               /\ call'[2].virtual_keycode = Some(k)) =>
                  BesidesKey(k)' = BesidesKey(k)
       /\ \A b \in Buttons :
              (call'[1] = "register_mouse_input" /\ call'[3] = b) =>
                  BesidesButton(b)' = BesidesButton(b)]_vars

\* key A was released last while key F and both buttons are held, the
\* wheel, the positions, the context and both hide flags are not the
\* default
C21_Witness ==
    /\ call = <<"register_key", KeyboardInput(Released, Some("A"), ModEmpty)>>
    /\ keys_before["A"].state = Pressed
    /\ keys_now["F"] = ButtonInput(Pressed, SHIFT)
    /\ keys_before["F"].state = Released
    /\ \A b \in Buttons :
           mouse_buttons_now[mouse_button_to_index(b)].state = Pressed
    /\ mouse_now = <<3, 6>>
    /\ mouse_before = <<0, 0>>
    /\ mouse_wheel = 1
    /\ hide_keys
    /\ hide_mouse
    /\ current_modifiers = SHIFT

\* C22: prepare_for_next_frame leaves keys_before equal to keys_now and
\* mouse_buttons_before equal to mouse_buttons_now, entry by entry, the
\* previous position equal to the current one, the wheel 0 and both hide
\* flags false; it leaves keys_now, mouse_buttons_now, mouse_now and the
\* context as they were, so a key whose entry is Pressed reads as down
\* after it.
C22_PrepareEffect ==
    /\ [](call = <<"prepare_for_next_frame">> =>
              /\ \A k \in KeyCodes : keys_before[k] = keys_now[k]
              /\ \A i \in ButtonIndices :
                     mouse_buttons_before[i] = mouse_buttons_now[i]
              /\ mouse_before = mouse_now
              /\ get_mouse_wheel = 0
              /\ ~hide_mouse
              /\ ~hide_keys)
    /\ [][call'[1] = "prepare_for_next_frame" =>
              /\ UNCHANGED <<keys_now, mouse_buttons_now, mouse_now,
                             current_modifiers>>
              /\ \A k \in KeyCodes :
                     keys_now[k].state = Pressed => is_key_down(k)']_vars

\* the frame before left key A and the button pressed under SHIFT, the
\* cursor at (3, 6) and the context empty
C22_Witness ==
    /\ call = <<"prepare_for_next_frame">>
    /\ keys_now["A"] = ButtonInput(Pressed, SHIFT)
    /\ is_key_down("A")
    /\ mouse_buttons_now[mouse_button_to_index(Left)]
           = ButtonInput(Pressed, SHIFT)
    /\ mouse_now = <<3, 6>>
    /\ current_modifiers = ModEmpty

\* the direct call an event stands for
DirectCall(ev) ==
    IF ev.kind # "WindowEvent" THEN UNCHANGED input
    ELSE CASE ev.event.kind = "KeyboardInput" -> register_key(ev.event.input)
           [] ev.event.kind = "CursorMoved" ->
                  register_mouse_position(f64_as_f32(ev.event.position[1]),
                                          f64_as_f32(ev.event.position[2]))
           [] ev.event.kind = "MouseWheel" ->
                  register_mouse_wheel(ev.event.delta)
           [] ev.event.kind = "MouseInput" ->
                  register_mouse_input(ev.event.state, ev.event.button)
           [] ev.event.kind = "ModifiersChanged" ->
                  set_modifiers(ev.event.modifiers)
           [] OTHER -> UNCHANGED input

\* C23: register_event with a window KeyboardInput, CursorMoved, MouseWheel
\* or MouseInput event leaves the Input as register_key,
\* register_mouse_position (of the coordinates as f32),
\* register_mouse_wheel or register_mouse_input leaves it, with
\* ModifiersChanged as set_modifiers leaves it, and with any other window
\* event or an event that is no window event as it was.
C23_EventDispatch ==
    [][\A ev \in Events :
           call' = <<"register_event", ev>> => DirectCall(ev)]_vars

\* the last event moved the cursor to an x that f32 rounds; the key was
\* pressed through an event after a ModifiersChanged, and the wheel turned
C23_Witness ==
    /\ call = <<"register_event", WindowEvent(CursorMoved(2^24 + 1, 1))>>
    /\ get_mouse_position = <<2^24, 1>>
    /\ keys_now["A"] = ButtonInput(Pressed, SHIFT)
    /\ is_mouse_button_down(Left)
    /\ get_mouse_wheel = 1

\* C24: for every key, toggled up is "not down and toggled", toggled down
\* and toggled up are never both true, and toggled holds exactly when one
\* of the two does; the same for every mouse button.
C24_ToggleDecomposition ==
    /\ \A k \in KeyCodes :
           /\ is_key_toggled_up(k) = (~is_key_down(k) /\ is_key_toggled(k))
           /\ ~(is_key_toggled_down(k) /\ is_key_toggled_up(k))
           /\ is_key_toggled(k)
                  = (is_key_toggled_down(k) \/ is_key_toggled_up(k))
    /\ \A b \in Buttons :
           /\ is_mouse_button_toggled_up(b)
                  = (~is_mouse_button_down(b) /\ is_mouse_button_toggled(b))
           /\ ~(is_mouse_button_toggled_down(b)
                    /\ is_mouse_button_toggled_up(b))
           /\ is_mouse_button_toggled(b)
                  = (is_mouse_button_toggled_down(b)
                         \/ is_mouse_button_toggled_up(b))

\* key A toggled up and Other(255) toggled down, in a frame that saw no
\* hide call
C24_Witness ==
    /\ hidden = {}
    /\ is_key_toggled_up("A")
    /\ is_mouse_button_toggled_down(Other(255))
    /\ is_mouse_button_toggled_up(Left)

\* C25: in every state exactly one of is_key_down and is_key_up holds for
\* every key, and exactly one of is_mouse_button_down and
\* is_mouse_button_up for every button, hidden or not.
C25_DownXorUp ==
    /\ \A k \in KeyCodes : is_key_down(k) # is_key_up(k)
    /\ \A b \in Buttons : is_mouse_button_down(b) # is_mouse_button_up(b)

\* both tables hidden over a pressed key A, a released key F and a pressed
\* button
C25_Witness ==
    /\ hide_keys
    /\ hide_mouse
    /\ keys_now["A"].state = Pressed
    /\ is_key_up("A")
    /\ keys_now["F"].state = Released
    /\ is_key_up("F")
    /\ mouse_buttons_now[mouse_button_to_index(Left)].state = Pressed
    /\ is_mouse_button_up(Left)

\* a step that registers one more event for key k
EventFor(k) == Len(key_events'[k]) = Len(key_events[k]) + 1

\* C26: a register_key call for key k with the state keys_now[k] already
\* has leaves is_key_toggled(k) and is_key_toggled_down(k) false, whatever
\* k did earlier in the frame; and a key that is not toggled stays so
\* through every call that is not an event for it, prepare_for_next_frame
\* included.
C26_DuplicateClearsToggle ==
    [][\A k \in KeyCodes :
           /\ (/\ EventFor(k)
               /\ key_events'[k][Len(key_events'[k])].state
                      = keys_now[k].state) =>
                  /\ ~is_key_toggled(k)'
                  /\ ~is_key_toggled_down(k)'
           /\ (~is_key_toggled(k) /\ ~EventFor(k)) => ~is_key_toggled(k)'
      ]_vars

\* key A began the frame released and got Pressed, Pressed: down, and not
\* toggled down
C26_Witness ==
    /\ frame_keys["A"].state = Released
    /\ States(key_events["A"]) = <<Pressed, Pressed>>
    /\ is_key_down("A")
    /\ ~is_key_toggled("A")
    /\ ~is_key_toggled_down("A")

\* C27 as claimed: a press registered in a frame in which the keys are
\* hidden is not observable as a toggle at any point of that frame, the
\* points before the hide call included: a frame in which
\* is_key_toggled_down(k) holds at some point is not hidden afterwards.
C27_NeverObservable ==
    [][is_key_toggled_down("A") =>
           ~("keys" \notin hidden /\ "keys" \in hidden')]_vars

\* C27, amended: from hide_key_state to the next prepare_for_next_frame
\* is_key_toggled_down(k) is false; after a frame in which the keys were
\* hidden and k was pressed, before or after the hide call, that prepare
\* leaves is_key_down(k) true and is_key_toggled_down(k) false; and
\* is_key_toggled_down(k), once false, stays false as long as no event
\* changes the entry of k.
C27_HiddenPressNotToggled ==
    /\ []("keys" \in hidden => ~is_key_toggled_down("A"))
    /\ [][/\ (/\ "keys" \in hidden
              /\ hidden' = {}
              /\ "A" \in keys_touched
              /\ keys_now["A"].state = Pressed) =>
                 /\ is_key_down("A")'
                 /\ ~is_key_toggled_down("A")'
          /\ (~is_key_toggled_down("A") /\ keys_now'["A"] = keys_now["A"]) =>
                 ~is_key_toggled_down("A")']_vars

\* key A was pressed from released while the keys were hidden, and the
\* prepare_for_next_frame after it has run
C27_Witness ==
    /\ unmasked = {KeySlot("A")}
    /\ hidden = {}
    /\ keys_touched = {}
    /\ keys_before["A"].state = Pressed
    /\ is_key_down("A")
    /\ ~is_key_toggled_down("A")

\* the x (c = 1) or y (c = 2) components of the get_mouse_moved values read
\* at the end of the frames so far
MovedReads(c) == [i \in 1..Len(frame_reads) |-> frame_reads[i].moved[c]]

\* the cursor position read at the end of the last frame
LastRead == frame_reads[Len(frame_reads)].position

\* C28 as claimed: the component-wise sum of the get_mouse_moved values read
\* right before each prepare_for_next_frame equals the cursor position at
\* the last of those reads, for any positions registered in between.
C28_ExactTelescope ==
    frame_reads # <<>> =>
        \A c \in 1..2 : Sum(MovedReads(c)) = LastRead[c]

\* C28, amended: when every cursor position read at the end of a frame has
\* integer coordinates of magnitude at most 2^23, so that no difference of
\* two of them is rounded, the component-wise sum of the get_mouse_moved
\* values read right before each prepare_for_next_frame equals the cursor
\* position at the last of those reads.
C28_MovementTelescopes ==
    (/\ frame_reads # <<>>
     /\ \A i \in 1..Len(frame_reads) : \A c \in 1..2 :
            Abs(frame_reads[i].position[c]) <= 2^23) =>
        \A c \in 1..2 : Sum(MovedReads(c)) = LastRead[c]

C28_Witness ==
    /\ Len(frame_reads) = 3
    /\ frame_reads[1].position = <<-(2^23), 2^23>>
    /\ frame_reads[2].position = <<2^23, -(2^23)>>
    /\ frame_reads[2].moved = <<2^24, -(2^24)>>
    /\ frame_reads[3].position = <<1, 1>>
    /\ Sum(MovedReads(1)) = 1

====
